---- MODULE Spec2Model ----
(***************************************************************************)
(* Model of the FUNDOSHI mint backend (src/server.js, the two-phase        *)
(* variant: /mint/check, /mint, /mint/sign, /rpc, /mint/confirm and the    *)
(* periodic cache sweep).                                                  *)
(*                                                                         *)
(* The server is one Node.js process.  A handler runs without interruption *)
(* between two awaits; at an await other handlers may run.  Each action    *)
(* below is one such uninterrupted stretch of one handler.  Stretches that *)
(* neither read nor write the shared state (the two files and the cache)   *)
(* are merged with the stretch that follows them.                          *)
(***************************************************************************)
EXTENDS Integers, Sequences, FiniteSets, TLC

VARIABLES
    whitelist,          \* content of whitelist.json, as a set of strings
    minted,             \* content of minted.json, an array of strings
    mintedReadable,     \* minted.json exists and parses; when it does not, minted is empty
    transactionCache,   \* the Map: wallet string -> cached signer data
    reqs,               \* the handlers waiting at an await, one record per slot
    started,            \* number of requests received, those to /rpc apart
    builds,             \* number of transactions the builder has produced
    lastResp,           \* the response sent last, with its request
    coSigns,            \* history: per wallet, the builds /mint/sign has co-signed
    relayed,            \* history: wallets whose co-signed transaction went through /rpc
    confirmedOK,        \* history: wallets for which /mint/confirm reported success
    checkedEligible,    \* history: wallets for which /mint/check answered eligible
    consumed,           \* history: the builds whose cache entry a /mint/sign answered with
    interleaved,        \* history: a /mint/confirm read minted.json while another one
                        \* was between its read and its write
    rpc,                \* the /rpc handler: its request, its calls of the ledger, its answer
    mintsDone           \* history: per wallet, the mints a direct-mint handler has executed

vars == <<whitelist, minted, mintedReadable, transactionCache, reqs, started, builds, lastResp,
          coSigns, relayed, confirmedOK, checkedEligible, consumed, interleaved, rpc,
          mintsDone>>

(***************************************************************************)
(* Bounds of the model.                                                    *)
(***************************************************************************)
MaxRequests == 3
MaxSlots == 2

(***************************************************************************)
(* const CACHE_TTL = 5 * 60 * 1000, in milliseconds                        *)
(***************************************************************************)
CACHE_TTL == 5 * 60 * 1000

(***************************************************************************)
(* Request inputs.  "A" and "B" are well-formed base58 addresses, "bad" is *)
(* a string that is no address, "" is a missing field.                     *)
(***************************************************************************)
WellFormed == {"A", "B"}
WalletInputs == WellFormed \cup {"bad", ""}
Slots == 1..MaxSlots

\* new PublicKey(wallet) throws unless the string decodes to a 32-byte key
IsPublicKey(s) == s \in WellFormed

\* !wallet : undefined, null and the empty string are falsy
IsMissing(s) == s = ""

\* Array.prototype.includes on an array of strings
Includes(arr, x) == \E i \in 1..Len(arr) : arr[i] = x

(***************************************************************************)
(* Identities of signers.  SYS is PublicKey.default, the identity of the   *)
(* guest (no secret key) that Metaplex.make(connection) uses as payer;     *)
(* AUTH is a signer with a secret key; MintKey(n) is the NFT mint keypair  *)
(* that the builder generates for request n.                               *)
(***************************************************************************)
SYS == "SYS"
AUTH == "AUTH"
\* a builder that hands out the same mint keypair in every build
MintKey_Shared(n) == "K1"

MintKey(n) == "K" \o ToString(n)

\* the order in which compileMessage sorts the signer keys after the fee payer
KeyOrder == <<SYS, AUTH, "A", "B">> \o [n \in 1..(MaxRequests + 1) |-> MintKey(n)]

\* a message is the build it was compiled in and its signer keys; a signature
\* names the secret key's owner and the message signed
NoMessage == [build |-> 0, keys |-> <<>>]
NoSig == [by |-> "", over |-> NoMessage]
\* an absent transaction field, and bytes that are no transaction
NoTx == [sigs |-> <<>>, message |-> NoMessage]
Garbage == [sigs |-> <<>>, message |-> [build |-> -1, keys |-> <<>>]]

(***************************************************************************)
(* HTTP responses.                                                         *)
(***************************************************************************)
NoResp == [status |-> 0, error |-> "", eligible |-> FALSE, reason |-> "",
           tx |-> NoTx, success |-> FALSE, observed |-> ""]
ErrResp(code, msg) == [NoResp EXCEPT !.status = code, !.error = msg]

\* what was true of a wallet when /mint checked it (history, not in the code):
\* it was on the allow-list, it was in the minted-list, a co-signed transaction
\* of it had been relayed
Facts(w, onList, inMinted, wasRelayed) ==
    [wallet |-> w, whitelisted |-> onList, minted |-> inMinted, relayed |-> wasRelayed]

IdleReq == [op |-> "idle", wallet |-> "", pc |-> "idle",
            eligibility |-> [eligible |-> FALSE, reason |-> ""],
            facts |-> Facts("", FALSE, FALSE, FALSE),
            cachedData |-> <<>>, txin |-> NoTx, snap |-> <<>>]

Free(i) == reqs[i].pc = "idle"
\* a new request takes the lowest free slot
CanStart(i) ==
    /\ Free(i)
    /\ \A j \in 1..(i - 1) : ~Free(j)
    /\ started < MaxRequests

NewReq(op, w) == [IdleReq EXCEPT !.op = op, !.wallet = w]
\* res.json(...) : the response of request r
Sent(r, resp) == [op |-> r.op, wallet |-> r.wallet, resp |-> resp]
NoneSent == Sent(IdleReq, NoResp)

(***************************************************************************)
(* loadWhitelist, loadMinted, checkEligibility                             *)
(***************************************************************************)
loadWhitelist == whitelist
\* what loadMinted returns: the array of the file, or [] when reading or parsing fails
loadMinted == minted

\* the catch branch of loadMinted: when reading or parsing fails it writes [] to the
\* file; called tells whether the handler gets as far as calling loadMinted
loadMintedCatch(called) == mintedReadable' = (mintedReadable \/ called)

\* checkEligibility with the two tests in the other order
checkEligibility_MintedFirst(wallet, wl, mt) ==
    IF Includes(mt, wallet)
    THEN [eligible |-> FALSE, reason |-> "Wallet has already minted"]
    ELSE IF ~(wallet \in wl)
         THEN [eligible |-> FALSE, reason |-> "Wallet not on whitelist"]
         ELSE [eligible |-> TRUE, reason |-> ""]

\* checkEligibility without the test of the minted-list
checkEligibility_NoMintedTest(wallet, wl, mt) ==
    IF ~(wallet \in wl)
    THEN [eligible |-> FALSE, reason |-> "Wallet not on whitelist"]
    ELSE [eligible |-> TRUE, reason |-> ""]

\* checkEligibility without the test of the allow-list
checkEligibility_NoWhitelistTest(wallet, wl, mt) ==
    IF Includes(mt, wallet)
    THEN [eligible |-> FALSE, reason |-> "Wallet has already minted"]
    ELSE [eligible |-> TRUE, reason |-> ""]

checkEligibility(wallet, wl, mt) ==
    IF ~(wallet \in wl)
    THEN [eligible |-> FALSE, reason |-> "Wallet not on whitelist"]
    ELSE IF Includes(mt, wallet)
         THEN [eligible |-> FALSE, reason |-> "Wallet has already minted"]
         ELSE [eligible |-> TRUE, reason |-> ""]

(***************************************************************************)
(* The Map transactionCache                                                *)
(***************************************************************************)
EmptyMap == [k \in {} |-> 0]
MapHas(m, k) == k \in DOMAIN m
MapSet(m, k, v) == [x \in (DOMAIN m) \cup {k} |-> IF x = k THEN v ELSE m[x]]
MapDelete(m, k) == [x \in (DOMAIN m) \ {k} |-> m[x]]

(***************************************************************************)
(* What metaplex.candyMachines().builders().mint() hands back for request  *)
(* n of wallet w: getSigners(), a list of signer objects that may repeat   *)
(* one signer, and the accounts the instructions mark as signers.  The     *)
(* library guarantees nothing about the list, so several shapes are tried: *)
(* the guest payer with the mint keypair, two signers with secret keys,    *)
(* the requester itself, and a signer the instructions do not name.        *)
(***************************************************************************)
\* the values candyMachine.itemsRemaining takes
ItemsRemaining == {0, 1}

Signer(pk, hasSecret) == [publicKey |-> pk, secretKey |-> hasSecret]

BuilderOutputs(w, n) ==
    { [signers |-> <<Signer(SYS, FALSE), Signer(MintKey(n), TRUE), Signer(SYS, FALSE)>>,
       signerMetas |-> {SYS, MintKey(n)}],
      [signers |-> <<Signer(MintKey(n), TRUE), Signer(AUTH, TRUE), Signer(MintKey(n), TRUE)>>,
       signerMetas |-> {MintKey(n), AUTH}],
      [signers |-> <<Signer(w, FALSE), Signer(SYS, FALSE)>>,
       signerMetas |-> {w, SYS}],
      [signers |-> <<Signer(MintKey(n), TRUE)>>,
       signerMetas |-> {}] }

\* the loop without the test backendSignersMap.has(pubkeyStr)
Dedup_KeepsRepeats(signers, wallet) ==
    SelectSeq(signers, LAMBDA sg : sg.publicKey # wallet /\ sg.secretKey)

\* the loop without the test of signer.secretKey
Dedup_NoSecretTest(signers, wallet) ==
    LET first(j) == \A h \in 1..(j - 1) : signers[h].publicKey # signers[j].publicKey
        kept == {j \in 1..Len(signers) : signers[j].publicKey # wallet /\ first(j)}
        nth(n) == CHOOSE j \in kept : Cardinality({h \in kept : h < j}) = n - 1
    IN [n \in 1..Cardinality(kept) |-> signers[nth(n)]]

RECURSIVE Dedup(_, _)
\* the loop over signers that fills backendSignersMap, in insertion order
Dedup(signers, wallet) ==
    IF signers = <<>> THEN <<>>
    ELSE LET front == Dedup(SubSeq(signers, 1, Len(signers) - 1), wallet)
             s == signers[Len(signers)]
         IN IF /\ s.publicKey # wallet
               /\ ~(\E j \in 1..Len(front) : front[j].publicKey = s.publicKey)
               /\ s.secretKey
            THEN Append(front, s)
            ELSE front

backendSignersOf(signers, wallet) == Dedup(signers, wallet)

(***************************************************************************)
(* Transaction of @solana/web3.js, as far as the handlers use it.          *)
(* A transaction object is [feePayer, signerMetas, signatures, build];     *)
(* its wire form is [sigs, message] with message = [build, keys]: the      *)
(* signatures in table order, then the message, whose first keys are the   *)
(* identities of the signature table.                                      *)
(***************************************************************************)
SortedKeys(S) == SelectSeq(KeyOrder, LAMBDA k : k \in S)

\* compileMessage: the fee payer first, then the other signer accounts, each once
compileKeys(feePayer, signerMetas) == <<feePayer>> \o SortedKeys(signerMetas \ {feePayer})

\* compileMessage throws "unknown signer" for a slot whose key no instruction names
unknownSigner(feePayer, signerMetas, signatures) ==
    \E j \in 1..Len(signatures) :
        signatures[j].publicKey \notin (signerMetas \cup {feePayer})

Slot(pk, sig) == [publicKey |-> pk, signature |-> sig]

\* the loop of /mint that pushes an empty slot for each backend signer
reserveSlots(signatures, backendSigners) ==
    LET missing == SelectSeq(backendSigners,
                        LAMBDA s : ~(\E j \in 1..Len(signatures) :
                                        signatures[j].publicKey = s.publicKey))
    IN signatures \o [j \in 1..Len(missing) |-> Slot(missing[j].publicKey, NoSig)]

\* _compile that keeps whatever table the transaction holds
compiledSignatures_NoRebuild(signatures, keys) == signatures

\* _compile: the table is kept when it already lists the message's signer keys
\* in order, and is otherwise rebuilt from them with empty signatures
compiledSignatures(signatures, keys) ==
    IF /\ Len(signatures) = Len(keys)
       /\ \A j \in 1..Len(keys) : signatures[j].publicKey = keys[j]
    THEN signatures
    ELSE [j \in 1..Len(keys) |-> Slot(keys[j], NoSig)]

\* serialize({requireAllSignatures: false, verifySignatures: false})
serialize(signatures, keys, build) ==
    LET table == compiledSignatures(signatures, keys)
    IN [sigs |-> [j \in 1..Len(table) |-> table[j].signature],
        message |-> [build |-> build, keys |-> keys]]

\* Transaction.from(bytes): the table pairs the wire signatures with the
\* message's first account keys, by position
signaturesOf(tx) ==
    [j \in 1..Len(tx.sigs) |-> Slot(tx.message.keys[j], tx.sigs[j])]

(***************************************************************************)
(* JSON, as far as /rpc uses it.  A number literal is the integer           *)
(* hi * 2^53 + lo; JSON.parse makes an IEEE double of it.  Below 2^53 every *)
(* integer is a double; from 2^53 to 2^54 the doubles are two apart, and a  *)
(* literal halfway between two of them goes to the one with the even        *)
(* mantissa.                                                                *)
(***************************************************************************)
Num(hi, lo) == [hi |-> hi, lo |-> lo]

\* the Number that JSON.parse makes of the literal n
ToNumber(n) ==
    IF n.hi = 0 THEN n
    ELSE IF n.lo % 2 = 0 THEN n
    ELSE IF ((n.lo - 1) \div 2) % 2 = 0 THEN Num(n.hi, n.lo - 1)
    ELSE Num(n.hi, n.lo + 1)

\* the id member of a JSON-RPC request: a number, a string, null, or no member
Id(t, v) == [t |-> t, v |-> v]
NullId == Id("null", "")
NoId == Id("absent", "")

\* the values that are falsy in x || y: 0, "", null and undefined
Falsy(id) ==
    \/ id.t \in {"null", "absent"}
    \/ id.t = "number" /\ id.v = "0"
    \/ id.t = "string" /\ id.v = ""

\* a JSON-RPC request body: method, id and one numeric parameter
RpcBody(method, id, param) == [method |-> method, id |-> id, param |-> param]

\* express.json(): req.body is JSON.parse of the body text
ParseBody(body) == [body EXCEPT !.param = ToNumber(@)]

\* JSON.stringify of a parsed value: every double prints as the literal that
\* reads back as itself, members that are undefined are left out
Stringify(value) == value

\* what fetch and response.json() can come to: the ledger's answer is JSON with
\* a numeric result, the ledger's answer is no JSON (the text of a gateway or of
\* a rate limiter), or fetch rejects (no connection, reset, DNS)
JsonReply(id, result) == [kind |-> "json", id |-> id, result |-> result]
TextReply == [kind |-> "text", id |-> NullId, result |-> Num(0, 0)]
Rejects == [kind |-> "rejects", id |-> NullId, result |-> Num(0, 0)]

\* response.json(): JSON.parse of the answer's text
ParseReply(reply) == [reply EXCEPT !.result = ToNumber(@)]

\* what the relay answers: the status, and either a body passed on or the
\* error envelope {jsonrpc, error: {code, message}, id}
RpcPassed(reply) == [status |-> 200, envelope |-> FALSE, code |-> 0, body |-> reply]
RpcEnvelope(id) ==
    [status |-> 500, envelope |-> TRUE, code |-> -32603,
     body |-> [kind |-> "json", id |-> id, result |-> Num(0, 0)]]
NoRpcResp == [status |-> 0, envelope |-> FALSE, code |-> 0, body |-> TextReply]

\* the /rpc handler at rest; raw is the body as the client sent it, reqBody is
\* req.body, sent lists the bodies of the fetch calls made, reply is what the
\* ledger answered (history)
RpcIdle == [pc |-> "idle", raw |-> RpcBody("", NoId, Num(0, 0)),
            reqBody |-> RpcBody("", NoId, Num(0, 0)), sent |-> <<>>,
            reply |-> Rejects, resp |-> NoRpcResp]

\* no direct mint has been executed
NoMints == [w \in WalletInputs |-> 0]

Init ==
    /\ whitelist \in {{"A"}, {"A", "B"}}
    /\ minted = <<>>
    /\ mintedReadable \in BOOLEAN
    /\ transactionCache = EmptyMap
    /\ reqs = [i \in Slots |-> IdleReq]
    /\ started = 0
    /\ builds = 0
    /\ lastResp = NoneSent
    /\ coSigns = [w \in WellFormed |-> {}]
    /\ relayed = {}
    /\ confirmedOK = {}
    /\ checkedEligible = {}
    /\ consumed = {}
    /\ interleaved = FALSE
    /\ rpc = RpcIdle
    /\ mintsDone = NoMints

(***************************************************************************)
(* POST /mint/check                                                        *)
(***************************************************************************)
MintCheck(i, wallet) ==
    /\ CanStart(i)
    /\ started' = started + 1
    /\ LET r == NewReq("check", wallet)
           e == checkEligibility(wallet, loadWhitelist, loadMinted)
           resp == IF IsMissing(wallet) THEN ErrResp(400, "Wallet address required")
                   ELSE IF ~IsPublicKey(wallet) THEN ErrResp(400, "Invalid wallet address")
                   ELSE [NoResp EXCEPT !.status = 200, !.eligible = e.eligible,
                                       !.reason = e.reason]
       IN /\ lastResp' = Sent(r, resp)
          /\ checkedEligible' = IF resp.eligible THEN checkedEligible \cup {wallet}
                                 ELSE checkedEligible
    /\ loadMintedCatch(~IsMissing(wallet) /\ IsPublicKey(wallet))
    /\ UNCHANGED <<whitelist, minted, transactionCache, reqs, builds, coSigns,
                   consumed, relayed, confirmedOK, interleaved, rpc, mintsDone>>

(***************************************************************************)
(* POST /mint                                                              *)
(***************************************************************************)
\* MintBegin without the 403 of an ineligible wallet
MintBegin_NoEligibility(i, wallet) ==
    /\ CanStart(i)
    /\ LET r == NewReq("mint", wallet)
           e == checkEligibility(wallet, loadWhitelist, loadMinted)
       IN IF IsMissing(wallet)
          THEN lastResp' = Sent(r, ErrResp(400, "Wallet address required")) /\ UNCHANGED reqs
          ELSE IF ~IsPublicKey(wallet)
          THEN lastResp' = Sent(r, ErrResp(400, "Invalid wallet address")) /\ UNCHANGED reqs
          ELSE /\ reqs' = [reqs EXCEPT ![i] =
                     [r EXCEPT !.pc = "await", !.eligibility = e,
                               !.facts = Facts(wallet, wallet \in whitelist,
                                                Includes(minted, wallet), wallet \in relayed)]]
               /\ UNCHANGED lastResp
    /\ started' = started + 1
    /\ loadMintedCatch(~IsMissing(wallet) /\ IsPublicKey(wallet))
    /\ UNCHANGED <<whitelist, checkedEligible, minted, transactionCache, builds,
                   coSigns, consumed, relayed, confirmedOK, interleaved, rpc,
                   mintsDone>>

\* MintBegin that skips checkEligibility for a wallet that /mint/check found eligible
MintBegin_TrustsCheck(i, wallet) ==
    /\ CanStart(i)
    /\ LET r == NewReq("mint", wallet)
           e == IF wallet \in checkedEligible THEN [eligible |-> TRUE, reason |-> ""]
                ELSE checkEligibility(wallet, loadWhitelist, loadMinted)
       IN IF IsMissing(wallet)
          THEN lastResp' = Sent(r, ErrResp(400, "Wallet address required")) /\ UNCHANGED reqs
          ELSE IF ~IsPublicKey(wallet)
          THEN lastResp' = Sent(r, ErrResp(400, "Invalid wallet address")) /\ UNCHANGED reqs
          ELSE IF ~e.eligible
          THEN lastResp' = Sent(r, ErrResp(403, e.reason)) /\ UNCHANGED reqs
          ELSE /\ reqs' = [reqs EXCEPT ![i] =
                     [r EXCEPT !.pc = "await", !.eligibility = e,
                               !.facts = Facts(wallet, wallet \in whitelist,
                                                Includes(minted, wallet), wallet \in relayed)]]
               /\ UNCHANGED lastResp
    /\ started' = started + 1
    /\ loadMintedCatch(~IsMissing(wallet) /\ IsPublicKey(wallet))
    /\ UNCHANGED <<whitelist, checkedEligible, minted, transactionCache, builds,
                   coSigns, consumed, relayed, confirmedOK, interleaved, rpc,
                   mintsDone>>

\* validation and checkEligibility, up to the await of findByAddress
MintBegin(i, wallet) ==
    /\ CanStart(i)
    /\ LET r == NewReq("mint", wallet)
           e == checkEligibility(wallet, loadWhitelist, loadMinted)
       IN IF IsMissing(wallet)
          THEN lastResp' = Sent(r, ErrResp(400, "Wallet address required")) /\ UNCHANGED reqs
          ELSE IF ~IsPublicKey(wallet)
          THEN lastResp' = Sent(r, ErrResp(400, "Invalid wallet address")) /\ UNCHANGED reqs
          ELSE IF ~e.eligible
          THEN lastResp' = Sent(r, ErrResp(403, e.reason)) /\ UNCHANGED reqs
          ELSE /\ reqs' = [reqs EXCEPT ![i] =
                     [r EXCEPT !.pc = "await", !.eligibility = e,
                               !.facts = Facts(wallet, wallet \in whitelist,
                                                Includes(minted, wallet), wallet \in relayed)]]
               /\ UNCHANGED lastResp
    /\ started' = started + 1
    /\ loadMintedCatch(~IsMissing(wallet) /\ IsPublicKey(wallet))
    /\ UNCHANGED <<whitelist, checkedEligible, minted, transactionCache, builds,
                   coSigns, consumed, relayed, confirmedOK, interleaved, rpc,
                   mintsDone>>

Awaiting(i, op) == reqs[i].op = op /\ reqs[i].pc = "await"

\* an external call (candy machine, blockhash, builder) throws
MintExternalFails(i) ==
    /\ Awaiting(i, "mint")
    /\ lastResp' = Sent(reqs[i], ErrResp(500, "fetch failed"))
    /\ reqs' = [reqs EXCEPT ![i] = IdleReq]
    /\ UNCHANGED <<whitelist, mintedReadable, checkedEligible, minted,
                   transactionCache, started, builds, coSigns, consumed, relayed,
                   confirmedOK, interleaved, rpc, mintsDone>>

\* { signers, timestamp: Date.now() }.  The code reads the timestamp only in
\* now - value.timestamp, so the entry keeps that difference, its age in ms.
CacheEntry(signers, facts, tx) ==
    [signers |-> signers, age |-> 0,
     \* history, not stored by the code: what /mint found when it checked the
     \* wallet, and the transaction it returned
     facts |-> facts, tx |-> tx,
     \* history: the transaction /mint returned for this wallet before this one,
     \* whose entry this one replaced
     prev |-> NoTx]

\* the transaction whose cache entry transactionCache.set(wallet, ...) replaces
Overwritten(wallet) ==
    IF ~MapHas(transactionCache, wallet) THEN NoTx
    ELSE IF transactionCache[wallet].tx # NoTx THEN transactionCache[wallet].tx
    ELSE transactionCache[wallet].prev

\* MintBuild that stores the cache entry before it looks at itemsRemaining
MintBuild_CacheFirst(i, itemsRemaining, out) ==
    /\ Awaiting(i, "mint")
    /\ LET r == reqs[i]
           backendSigners == backendSignersOf(out.signers, r.wallet)
           keys == compileKeys(r.wallet, out.signerMetas)
           signatures == reserveSlots(<<>>, backendSigners)
           tx == serialize(signatures, keys, builds + 1)
           failed == unknownSigner(r.wallet, out.signerMetas, signatures)
       IN /\ transactionCache' = MapSet(transactionCache, r.wallet,
                  [CacheEntry(backendSigners, r.facts,
                              IF failed \/ itemsRemaining = 0 THEN NoTx ELSE tx)
                      EXCEPT !.prev = Overwritten(r.wallet)])
          /\ builds' = builds + 1
          /\ IF itemsRemaining = 0
             THEN lastResp' = Sent(r, ErrResp(400, "All NFTs have been minted"))
             ELSE IF failed
             THEN lastResp' = Sent(r, ErrResp(500, "unknown signer"))
             ELSE lastResp' = Sent(r, [NoResp EXCEPT !.status = 200, !.tx = tx])
    /\ reqs' = [reqs EXCEPT ![i] = IdleReq]
    /\ UNCHANGED <<whitelist, mintedReadable, checkedEligible, minted, started,
                   coSigns, consumed, relayed, confirmedOK, interleaved, rpc,
                   mintsDone>>

\* MintBuild that applies the backend signatures at build time and returns the
\* partially signed form, the requester's slot alone left empty
MintBuild_SignsAtBuild(i, itemsRemaining, out) ==
    /\ Awaiting(i, "mint")
    /\ LET r == reqs[i]
           backendSigners == backendSignersOf(out.signers, r.wallet)
           keys == compileKeys(r.wallet, out.signerMetas)
           signatures == reserveSlots(<<>>, backendSigners)
           unsigned == serialize(signatures, keys, builds + 1)
           held(pk) == \E k \in 1..Len(backendSigners) : backendSigners[k].publicKey = pk
           tx == [unsigned EXCEPT !.sigs = [j \in 1..Len(unsigned.sigs) |->
                     IF held(keys[j]) THEN [by |-> keys[j], over |-> unsigned.message]
                     ELSE unsigned.sigs[j]]]
           failed == unknownSigner(r.wallet, out.signerMetas, signatures)
       IN IF itemsRemaining = 0
          THEN /\ lastResp' = Sent(r, ErrResp(400, "All NFTs have been minted"))
               /\ UNCHANGED <<transactionCache, builds>>
          ELSE /\ transactionCache' = MapSet(transactionCache, r.wallet,
                        [CacheEntry(backendSigners, r.facts, IF failed THEN NoTx ELSE tx)
                    EXCEPT !.prev = Overwritten(r.wallet)])
               /\ builds' = builds + 1
               /\ IF failed
                  THEN lastResp' = Sent(r, ErrResp(500, "unknown signer"))
                  ELSE lastResp' = Sent(r, [NoResp EXCEPT !.status = 200, !.tx = tx])
    /\ reqs' = [reqs EXCEPT ![i] = IdleReq]
    /\ UNCHANGED <<whitelist, mintedReadable, checkedEligible, minted, started,
                   coSigns, consumed, relayed, confirmedOK, interleaved, rpc,
                   mintsDone>>

\* findByAddress answers with itemsRemaining; when items remain the builder
\* answers with out, and the rest of the handler runs
MintBuild(i, itemsRemaining, out) ==
    /\ Awaiting(i, "mint")
    /\ LET r == reqs[i]
           backendSigners == backendSignersOf(out.signers, r.wallet)
           keys == compileKeys(r.wallet, out.signerMetas)
           signatures == reserveSlots(<<>>, backendSigners)
           tx == serialize(signatures, keys, builds + 1)
           failed == unknownSigner(r.wallet, out.signerMetas, signatures)
       IN IF itemsRemaining = 0
          THEN /\ lastResp' = Sent(r, ErrResp(400, "All NFTs have been minted"))
               /\ UNCHANGED <<transactionCache, builds>>
          ELSE /\ transactionCache' = MapSet(transactionCache, r.wallet,
                        [CacheEntry(backendSigners, r.facts, IF failed THEN NoTx ELSE tx)
                    EXCEPT !.prev = Overwritten(r.wallet)])
               /\ builds' = builds + 1
               /\ IF failed
                  THEN lastResp' = Sent(r, ErrResp(500, "unknown signer"))
                  ELSE lastResp' = Sent(r, [NoResp EXCEPT !.status = 200, !.tx = tx])
    /\ reqs' = [reqs EXCEPT ![i] = IdleReq]
    /\ UNCHANGED <<whitelist, mintedReadable, checkedEligible, minted, started,
                   coSigns, consumed, relayed, confirmedOK, interleaved, rpc,
                   mintsDone>>

(***************************************************************************)
(* POST /mint/sign                                                         *)
(***************************************************************************)
\* what the wallet of w makes of a transaction it is asked to sign: its own
\* signature over the message, in its own slot
UserSigned(tx, w) ==
    [tx EXCEPT !.sigs = [j \in 1..Len(tx.sigs) |->
        IF tx.message.keys[j] = w THEN [by |-> w, over |-> tx.message] ELSE tx.sigs[j]]]

\* the transactions a client may submit: none, bytes that are no transaction, and
\* a transaction some /mint returned, signed by the client's wallet
TxInputs(w) ==
    {NoTx, Garbage} \cup
    {UserSigned(transactionCache[k].tx, w) :
        k \in {x \in DOMAIN transactionCache : transactionCache[x].tx # NoTx}} \cup
    {UserSigned(transactionCache[k].prev, w) :
        k \in {x \in DOMAIN transactionCache : transactionCache[x].prev # NoTx}}

\* findIndex over the signature table
IndexOf(signatures, pk) ==
    IF \E j \in 1..Len(signatures) : signatures[j].publicKey = pk
    THEN CHOOSE j \in 1..Len(signatures) :
            /\ signatures[j].publicKey = pk
            /\ \A h \in 1..(j - 1) : signatures[h].publicKey # pk
    ELSE 0

\* nacl.sign.detached(messageBytes, signer.secretKey)
Detached(message, signer) == [by |-> signer.publicKey, over |-> message]

\* a loop that pushes a new slot for every signer and looks for none
addBackendSignatures_AlwaysPush(signatures, signers, message) ==
    signatures \o [k \in 1..Len(signers) |->
                      Slot(signers[k].publicKey, Detached(message, signers[k]))]

RECURSIVE addBackendSignatures(_, _, _)
\* the loop over backendSigners: the slot of the signer's key is filled, or a
\* new slot is pushed
addBackendSignatures(signatures, signers, message) ==
    IF signers = <<>> THEN signatures
    ELSE LET done == addBackendSignatures(signatures,
                                          SubSeq(signers, 1, Len(signers) - 1), message)
             signer == signers[Len(signers)]
             sigIndex == IndexOf(done, signer.publicKey)
         IN IF sigIndex > 0
            THEN [done EXCEPT ![sigIndex].signature = Detached(message, signer)]
            ELSE Append(done, Slot(signer.publicKey, Detached(message, signer)))

\* SignTail that deletes the cache entry before it serializes
SignTail_DeleteFirst(r, signatures, added) ==
    LET keys == r.txin.message.keys
        failed == Len(signatures) # Len(r.txin.sigs)
        tx == serialize(signatures, keys, r.txin.message.build)
    IN /\ transactionCache' = MapDelete(transactionCache, r.wallet)
       /\ IF failed
          THEN /\ lastResp' = Sent(r, ErrResp(500, "Failed to serialize transaction"))
               /\ UNCHANGED <<coSigns, consumed>>
          ELSE /\ lastResp' = Sent(r, [NoResp EXCEPT !.status = 200, !.tx = tx])
               /\ coSigns' = IF added /\ r.wallet \in DOMAIN coSigns
                             THEN [coSigns EXCEPT ![r.wallet] = @ \cup {r.txin.message.build}]
                             ELSE coSigns
               /\ consumed' = consumed \cup {r.cachedData[1].tx.message.build}

\* the end of the handler: serialize, delete the cache entry, answer
SignTail(r, signatures, added) ==
    LET keys == r.txin.message.keys
        \* a pushed slot makes serialize recompile the message, which knows no such signer
        failed == Len(signatures) # Len(r.txin.sigs)
        tx == serialize(signatures, keys, r.txin.message.build)
    IN IF failed
       THEN /\ lastResp' = Sent(r, ErrResp(500, "Failed to serialize transaction"))
            /\ UNCHANGED <<transactionCache, coSigns, consumed>>
       ELSE /\ lastResp' = Sent(r, [NoResp EXCEPT !.status = 200, !.tx = tx])
            /\ transactionCache' = MapDelete(transactionCache, r.wallet)
            /\ coSigns' = IF added /\ r.wallet \in DOMAIN coSigns
                          THEN [coSigns EXCEPT ![r.wallet] = @ \cup {r.txin.message.build}]
                          ELSE coSigns
            /\ consumed' = consumed \cup {r.cachedData[1].tx.message.build}

\* SignBegin that takes a missing cache entry for an empty list of signers
SignBegin_NoEntryTest(i, wallet, txin) ==
    /\ CanStart(i)
    /\ started' = started + 1
    /\ LET r == [NewReq("sign", wallet) EXCEPT !.txin = txin]
           cachedData == IF MapHas(transactionCache, wallet) THEN transactionCache[wallet]
                         ELSE CacheEntry(<<>>, r.facts, NoTx)
       IN IF IsMissing(wallet) \/ txin = NoTx
          THEN /\ lastResp' = Sent(r, ErrResp(400, "Wallet and transaction required"))
               /\ UNCHANGED <<reqs, transactionCache, coSigns, consumed>>
          ELSE IF txin = Garbage
          THEN /\ lastResp' = Sent(r, ErrResp(500, "invalid transaction"))
               /\ UNCHANGED <<reqs, transactionCache, coSigns, consumed>>
          ELSE IF Len(cachedData.signers) > 0
          THEN /\ reqs' = [reqs EXCEPT ![i] =
                     [r EXCEPT !.pc = "await", !.cachedData = <<cachedData>>]]
               /\ UNCHANGED <<lastResp, transactionCache, coSigns, consumed>>
          ELSE /\ SignTail([r EXCEPT !.cachedData = <<cachedData>>],
                            signaturesOf(txin), FALSE)
               /\ UNCHANGED reqs
    /\ UNCHANGED <<whitelist, mintedReadable, checkedEligible, minted, builds, relayed,
                   confirmedOK, interleaved, rpc, mintsDone>>

\* validation, the cache lookup and Transaction.from, up to the await of import('crypto')
SignBegin(i, wallet, txin) ==
    /\ CanStart(i)
    /\ started' = started + 1
    /\ LET r == [NewReq("sign", wallet) EXCEPT !.txin = txin]
       IN IF IsMissing(wallet) \/ txin = NoTx
          THEN /\ lastResp' = Sent(r, ErrResp(400, "Wallet and transaction required"))
               /\ UNCHANGED <<reqs, transactionCache, coSigns, consumed>>
          ELSE IF ~MapHas(transactionCache, wallet)
          THEN /\ lastResp' = Sent(r, ErrResp(400, "Transaction expired or not found"))
               /\ UNCHANGED <<reqs, transactionCache, coSigns, consumed>>
          ELSE IF txin = Garbage
          THEN /\ lastResp' = Sent(r, ErrResp(500, "invalid transaction"))
               /\ UNCHANGED <<reqs, transactionCache, coSigns, consumed>>
          ELSE IF Len(transactionCache[wallet].signers) > 0
          THEN /\ reqs' = [reqs EXCEPT ![i] =
                     [r EXCEPT !.pc = "await", !.cachedData = <<transactionCache[wallet]>>]]
               /\ UNCHANGED <<lastResp, transactionCache, coSigns, consumed>>
          ELSE /\ SignTail([r EXCEPT !.cachedData = <<transactionCache[wallet]>>],
                            signaturesOf(txin), FALSE)
               /\ UNCHANGED reqs
    /\ UNCHANGED <<whitelist, mintedReadable, checkedEligible, minted, builds, relayed,
                   confirmedOK, interleaved, rpc, mintsDone>>

\* the signing loop and the end of the handler
SignFinish(i) ==
    /\ Awaiting(i, "sign")
    /\ LET r == reqs[i]
           backendSigners == r.cachedData[1].signers
           signatures == addBackendSignatures(signaturesOf(r.txin), backendSigners,
                                              r.txin.message)
       IN SignTail(r, signatures, TRUE)
    /\ reqs' = [reqs EXCEPT ![i] = IdleReq]
    /\ UNCHANGED <<whitelist, mintedReadable, checkedEligible, minted, started, builds,
                   relayed, confirmedOK, interleaved, rpc, mintsDone>>

(***************************************************************************)
(* POST /mint/confirm                                                      *)
(***************************************************************************)
\* what connection.getSignatureStatus answers: it throws, or value is null,
\* or value.confirmationStatus is one of the ledger's three levels
StatusOutcomes == {"throws", "null", "processed", "confirmed", "finalized"}

IsConfirmed(status) == status = "confirmed" \/ status = "finalized"

ConfirmedResp == [NoResp EXCEPT !.status = 200, !.success = TRUE]

\* another /mint/confirm handler has read minted.json and not yet written it
ReadInWindow(i) == \E j \in Slots \ {i} : Awaiting(j, "confirm")

\* ConfirmBegin without the test minted.includes(wallet)
ConfirmBegin_NoIncludesTest(i, wallet, signature, status) ==
    /\ CanStart(i)
    /\ started' = started + 1
    /\ LET r == NewReq("confirm", wallet)
           snap == loadMinted
       IN IF IsMissing(wallet) \/ signature = ""
          THEN /\ lastResp' = Sent(r, ErrResp(400, "Wallet and signature required"))
               /\ UNCHANGED <<reqs, confirmedOK>>
          ELSE IF status = "throws"
          THEN /\ lastResp' = Sent(r, ErrResp(500, "fetch failed"))
               /\ UNCHANGED <<reqs, confirmedOK>>
          ELSE IF ~IsConfirmed(status)
          THEN /\ lastResp' = Sent(r, [ErrResp(400, "Transaction not confirmed")
                                          EXCEPT !.observed = status])
               /\ UNCHANGED <<reqs, confirmedOK>>
          ELSE /\ reqs' = [reqs EXCEPT ![i] =
                     [r EXCEPT !.pc = "await", !.snap = Append(snap, wallet)]]
               /\ UNCHANGED <<lastResp, confirmedOK>>
    /\ loadMintedCatch(~IsMissing(wallet) /\ signature # "" /\ IsConfirmed(status))
    /\ interleaved' = (interleaved \/ (reqs'[i].pc = "await" /\ ReadInWindow(i)))
    /\ UNCHANGED <<whitelist, checkedEligible, minted, transactionCache, builds,
                   coSigns, consumed, relayed, rpc, mintsDone>>

\* ConfirmBegin that records the wallet before it looks at the status
ConfirmBegin_RecordsFirst(i, wallet, signature, status) ==
    /\ CanStart(i)
    /\ started' = started + 1
    /\ LET r == NewReq("confirm", wallet)
           snap == loadMinted
       IN IF IsMissing(wallet) \/ signature = ""
          THEN /\ lastResp' = Sent(r, ErrResp(400, "Wallet and signature required"))
               /\ UNCHANGED <<reqs, confirmedOK, minted>>
          ELSE IF status = "throws"
          THEN /\ lastResp' = Sent(r, ErrResp(500, "fetch failed"))
               /\ UNCHANGED <<reqs, confirmedOK, minted>>
          ELSE IF ~IsConfirmed(status)
          THEN /\ lastResp' = Sent(r, [ErrResp(400, "Transaction not confirmed")
                                          EXCEPT !.observed = status])
               /\ minted' = IF Includes(snap, wallet) THEN snap ELSE Append(snap, wallet)
               /\ UNCHANGED <<reqs, confirmedOK>>
          ELSE IF Includes(snap, wallet)
          THEN /\ lastResp' = Sent(r, ConfirmedResp)
               /\ confirmedOK' = confirmedOK \cup {wallet}
               /\ UNCHANGED <<reqs, minted>>
          ELSE /\ reqs' = [reqs EXCEPT ![i] =
                     [r EXCEPT !.pc = "await", !.snap = Append(snap, wallet)]]
               /\ UNCHANGED <<lastResp, confirmedOK, minted>>
    /\ loadMintedCatch(~IsMissing(wallet) /\ signature # "" /\ IsConfirmed(status))
    /\ interleaved' = (interleaved \/ (reqs'[i].pc = "await" /\ ReadInWindow(i)))
    /\ UNCHANGED <<whitelist, checkedEligible, transactionCache, builds,
                   coSigns, consumed, relayed, rpc, mintsDone>>

\* validation, getSignatureStatus and loadMinted, up to the call of saveMinted
ConfirmBegin(i, wallet, signature, status) ==
    /\ CanStart(i)
    /\ started' = started + 1
    /\ LET r == NewReq("confirm", wallet)
           snap == loadMinted
       IN IF IsMissing(wallet) \/ signature = ""
          THEN /\ lastResp' = Sent(r, ErrResp(400, "Wallet and signature required"))
               /\ UNCHANGED <<reqs, confirmedOK>>
          ELSE IF status = "throws"
          THEN /\ lastResp' = Sent(r, ErrResp(500, "fetch failed"))
               /\ UNCHANGED <<reqs, confirmedOK>>
          ELSE IF ~IsConfirmed(status)
          THEN /\ lastResp' = Sent(r, [ErrResp(400, "Transaction not confirmed")
                                          EXCEPT !.observed = status])
               /\ UNCHANGED <<reqs, confirmedOK>>
          ELSE IF Includes(snap, wallet)
          THEN /\ lastResp' = Sent(r, ConfirmedResp)
               /\ confirmedOK' = confirmedOK \cup {wallet}
               /\ UNCHANGED reqs
          ELSE /\ reqs' = [reqs EXCEPT ![i] =
                     [r EXCEPT !.pc = "await", !.snap = Append(snap, wallet)]]
               /\ UNCHANGED <<lastResp, confirmedOK>>
    /\ loadMintedCatch(~IsMissing(wallet) /\ signature # "" /\ IsConfirmed(status))
    /\ interleaved' = (interleaved \/ (reqs'[i].pc = "await" /\ ReadInWindow(i)))
    /\ UNCHANGED <<whitelist, checkedEligible, minted, transactionCache, builds,
                   coSigns, consumed, relayed, rpc, mintsDone>>

\* saveMinted that writes an array holding the handler's wallet alone
ConfirmSave_OnlyOwn(i) ==
    /\ Awaiting(i, "confirm")
    /\ minted' = <<reqs[i].wallet>>
    /\ reqs' = [reqs EXCEPT ![i].pc = "saved"]
    /\ loadMintedCatch(TRUE)
    /\ UNCHANGED <<whitelist, checkedEligible, transactionCache, started, builds,
                   lastResp, coSigns, consumed, relayed, confirmedOK, interleaved,
                   rpc, mintsDone>>

\* saveMinted that appends the handler's wallet to what the file holds at the write
ConfirmSave_AppendsToFile(i) ==
    /\ Awaiting(i, "confirm")
    /\ minted' = Append(minted, reqs[i].wallet)
    /\ reqs' = [reqs EXCEPT ![i].pc = "saved"]
    /\ loadMintedCatch(TRUE)
    /\ UNCHANGED <<whitelist, checkedEligible, transactionCache, started, builds,
                   lastResp, coSigns, consumed, relayed, confirmedOK, interleaved,
                   rpc, mintsDone>>

\* saveMinted: fs.writeFile puts the array the handler holds into minted.json
ConfirmSave(i) ==
    /\ Awaiting(i, "confirm")
    /\ minted' = reqs[i].snap
    /\ reqs' = [reqs EXCEPT ![i].pc = "saved"]
    /\ loadMintedCatch(TRUE)
    /\ UNCHANGED <<whitelist, checkedEligible, transactionCache, started, builds,
                   lastResp, coSigns, consumed, relayed, confirmedOK,
                   interleaved, rpc, mintsDone>>

\* the handler resumes after the await of saveMinted and answers
ConfirmAnswer(i) ==
    /\ reqs[i].op = "confirm" /\ reqs[i].pc = "saved"
    /\ lastResp' = Sent(reqs[i], ConfirmedResp)
    /\ confirmedOK' = confirmedOK \cup {reqs[i].wallet}
    /\ reqs' = [reqs EXCEPT ![i] = IdleReq]
    /\ UNCHANGED <<whitelist, mintedReadable, checkedEligible, minted,
                   transactionCache, started, builds, coSigns, consumed, relayed,
                   interleaved, rpc, mintsDone>>

(***************************************************************************)
(* POST /rpc                                                               *)
(***************************************************************************)
\* the body carries sendTransaction with a transaction /mint/sign returned for
\* wallet; the relay forwards it to the ledger.  It reads and writes none of
\* the files and the cache.
Rpc(wallet) ==
    /\ coSigns[wallet] # {}
    /\ wallet \notin relayed
    /\ relayed' = relayed \cup {wallet}
    /\ UNCHANGED <<whitelist, mintedReadable, checkedEligible, minted,
                   transactionCache, reqs, started, builds, lastResp, coSigns,
                   consumed, confirmedOK, interleaved, rpc, mintsDone>>

(***************************************************************************)
(* The clock and the sweep of setInterval                                  *)
(***************************************************************************)
\* Time passes.  The code compares an age with CACHE_TTL and does nothing else
\* with it, so the clock advances in steps of CACHE_TTL: an entry is younger than
\* the time-to-live (age 0), exactly as old (CACHE_TTL), or older (2 * CACHE_TTL),
\* and an age beyond that is not told apart from 2 * CACHE_TTL.
Tick ==
    /\ \E key \in DOMAIN transactionCache : transactionCache[key].age <= CACHE_TTL
    /\ transactionCache' = [key \in DOMAIN transactionCache |->
            [transactionCache[key] EXCEPT
                !.age = IF @ <= CACHE_TTL THEN @ + CACHE_TTL ELSE @]]
    /\ UNCHANGED <<whitelist, mintedReadable, checkedEligible, minted, reqs, started,
                   builds, lastResp, coSigns, consumed, relayed, confirmedOK,
                   interleaved, rpc, mintsDone>>

\* a test of the age that no entry ever meets
Expired_Never(value) == value.age > 3 * CACHE_TTL

\* a test that takes an entry exactly as old as the time-to-live for expired
Expired_AtTTL(value) == value.age >= CACHE_TTL

\* now - value.timestamp > CACHE_TTL
Expired(value) == value.age > CACHE_TTL

\* the callback of setInterval
Sweep ==
    /\ transactionCache' = [key \in {k \in DOMAIN transactionCache :
                                        ~Expired(transactionCache[k])}
                               |-> transactionCache[key]]
    /\ UNCHANGED <<whitelist, mintedReadable, checkedEligible, minted, reqs, started,
                   builds, lastResp, coSigns, consumed, relayed, confirmedOK,
                   interleaved, rpc, mintsDone>>

Next ==
    \/ \E i \in Slots, w \in WalletInputs : MintCheck(i, w)
    \/ \E i \in Slots, w \in WalletInputs : MintBegin(i, w)
    \/ \E i \in Slots : MintExternalFails(i)
    \/ \E i \in Slots, itemsRemaining \in ItemsRemaining :
            \E out \in BuilderOutputs(reqs[i].wallet, builds + 1) :
                MintBuild(i, itemsRemaining, out)
    \/ \E i \in Slots, w \in WalletInputs : \E txin \in TxInputs(w) : SignBegin(i, w, txin)
    \/ \E i \in Slots : SignFinish(i)
    \/ \E i \in Slots, w \in WalletInputs, sg \in {"", "sig"}, st \in StatusOutcomes :
            ConfirmBegin(i, w, sg, st)
    \/ \E i \in Slots : ConfirmSave(i)
    \/ \E i \in Slots : ConfirmAnswer(i)
    \/ \E w \in WellFormed : Rpc(w)
    \/ Tick
    \/ Sweep

Spec == Init /\ [][Next]_vars
(***************************************************************************)
(* What the runtime guarantees to happen: a handler waiting for a local    *)
(* operation (the import of a built-in module, a write of a local file)    *)
(* resumes, time passes, and the timer of setInterval fires.  Nothing in   *)
(* the code makes an answer of the ledger endpoint arrive, so the steps    *)
(* that stand for such an answer (MintBuild, MintExternalFails) carry no   *)
(* fairness: an endpoint that never answers is a run in which they never   *)
(* happen.                                                                 *)
(***************************************************************************)
Fairness ==
    /\ \A i \in Slots : WF_vars(SignFinish(i))
    /\ \A i \in Slots : WF_vars(ConfirmSave(i))
    /\ \A i \in Slots : WF_vars(ConfirmAnswer(i))
    /\ WF_vars(Tick)
    /\ WF_vars(Sweep)

FairSpec == Init /\ [][Next]_vars /\ Fairness

\* time passes, and the timer of setInterval fires
TimerFairness == WF_vars(Tick) /\ WF_vars(Sweep)

FairSpecTimer == Init /\ [][Next]_vars /\ TimerFairness

(***************************************************************************)
(* The /rpc handler by itself.  It uses no variable of the module but its  *)
(* own locals, so it is specified apart from the mint handlers: SpecRpc    *)
(* starts with the files and the cache in some state and runs /rpc         *)
(* requests one after another.                                             *)
(***************************************************************************)
RpcMethods == {"sendTransaction", "getBalance"}
RpcIds == {Id("number", "0"), Id("number", "7"), Id("string", ""), Id("string", "abc"),
           NullId, NoId}
\* number literals below, at and above 2^53
RpcNumbers == {Num(0, 1), Num(1, 0), Num(1, 1), Num(1, 2), Num(1, 3)}
RpcBodies == {RpcBody(m, id, n) : m \in RpcMethods, id \in RpcIds, n \in RpcNumbers}

\* the answers of the ledger to the request it was sent
LedgerReplies(sentBody) ==
    {JsonReply(IF sentBody.id = NoId THEN NullId ELSE sentBody.id, n) : n \in RpcNumbers}
        \cup {TextReply, Rejects}

\* the answers the call in flight can get
RepliesInFlight == IF rpc.pc = "fetch" THEN LedgerReplies(rpc.sent[1]) ELSE {}

\* the handler up to the await of fetch: the one call of fetch it makes
RpcBegin(body) ==
    /\ rpc.pc \in {"idle", "done"}
    /\ LET rpcRequest == ParseBody(body)
       IN rpc' = [RpcIdle EXCEPT !.pc = "fetch", !.raw = body, !.reqBody = rpcRequest,
                                 !.sent = <<Stringify(rpcRequest)>>]
    /\ UNCHANGED <<whitelist, mintedReadable, checkedEligible, minted, transactionCache,
                   reqs, started, builds, lastResp, coSigns, consumed, relayed,
                   confirmedOK, interleaved, mintsDone>>

\* id: req.body.id || null
envelopeId(reqBody) == IF Falsy(reqBody.id) THEN NullId ELSE reqBody.id

\* fetch and response.json() settle: the answer is passed on, or the catch
\* branch answers with the error envelope
RpcAnswer(reply) ==
    /\ rpc.pc = "fetch"
    /\ LET resp == IF reply.kind = "json"
                   THEN RpcPassed(Stringify(ParseReply(reply)))
                   ELSE RpcEnvelope(envelopeId(rpc.reqBody))
       IN rpc' = [rpc EXCEPT !.pc = "done", !.reply = reply, !.resp = resp]
    /\ UNCHANGED <<whitelist, mintedReadable, checkedEligible, minted, transactionCache,
                   reqs, started, builds, lastResp, coSigns, consumed, relayed,
                   confirmedOK, interleaved, mintsDone>>

\* a cache entry as /mint stores it for wallet w in its build n
BuiltEntry(w, n) ==
    LET backendSigners == <<Signer(MintKey(n), TRUE)>>
        keys == compileKeys(w, {MintKey(n)})
    IN CacheEntry(backendSigners, Facts(w, TRUE, FALSE, FALSE),
                  serialize(reserveSlots(<<>>, backendSigners), keys, n))

InitRpc ==
    /\ whitelist \in {{"A"}, {"A", "B"}}
    /\ minted \in {<<>>, <<"B">>}
    /\ mintedReadable = TRUE
    /\ \E cached \in BOOLEAN :
          /\ transactionCache = IF cached THEN MapSet(EmptyMap, "A", BuiltEntry("A", 1))
                                ELSE EmptyMap
          /\ builds = IF cached THEN 1 ELSE 0
    /\ reqs = [i \in Slots |-> IdleReq]
    /\ started = 0
    /\ lastResp = NoneSent
    /\ coSigns = [w \in WellFormed |-> {}]
    /\ relayed = {}
    /\ confirmedOK = {}
    /\ checkedEligible = {}
    /\ consumed = {}
    /\ interleaved = FALSE
    /\ rpc = RpcIdle
    /\ mintsDone = NoMints

NextRpc ==
    \/ \E body \in RpcBodies : RpcBegin(body)
    \/ \E reply \in RepliesInFlight : RpcAnswer(reply)

SpecRpc == InitRpc /\ [][NextRpc]_vars

(***************************************************************************)
(* The direct-mint variants: POST /mint/v2 (the Metaplex SDK mints with    *)
(* the authority as identity) and POST /mint/sugar (the Sugar CLI mints).  *)
(* Each is a server of its own with its own whitelist.json and             *)
(* minted.json; the handler checks eligibility, executes the mint, and     *)
(* then records the wallet.                                                *)
(***************************************************************************)
DirectVariants == {"v2", "sugar"}

\* what the awaited mint comes to: the mint is executed and the call returns
\* its signature; the call throws with nothing minted; the mint is executed on
\* the ledger and the call throws all the same (the confirmation or the 60 s
\* limit of exec times out, the output of the CLI has no "Mint: " line); the
\* candy machine reports no item left
MintOutcomes == {"minted", "fails", "mintedThenThrows", "exhausted"}

DirectResp == [NoResp EXCEPT !.status = 200, !.success = TRUE]

\* validation and checkEligibility, up to the await of the mint
DirectBegin(i, wallet, variant) ==
    /\ CanStart(i)
    /\ started' = started + 1
    /\ LET r == NewReq(variant, wallet)
           e == checkEligibility(wallet, loadWhitelist, loadMinted)
       IN IF IsMissing(wallet)
          THEN lastResp' = Sent(r, ErrResp(400, "Wallet required")) /\ UNCHANGED reqs
          ELSE IF variant = "v2" /\ ~IsPublicKey(wallet)
          THEN lastResp' = Sent(r, ErrResp(500, "Invalid public key input")) /\ UNCHANGED reqs
          ELSE IF ~e.eligible
          THEN lastResp' = Sent(r, ErrResp(403, e.reason)) /\ UNCHANGED reqs
          ELSE /\ reqs' = [reqs EXCEPT ![i] = [r EXCEPT !.pc = "await", !.eligibility = e]]
               /\ UNCHANGED lastResp
    /\ UNCHANGED <<whitelist, mintedReadable, checkedEligible, minted, transactionCache,
                   builds, coSigns, consumed, relayed, confirmedOK, interleaved, rpc,
                   mintsDone>>

\* the awaited mint settles
DirectSettle(i, outcome) ==
    /\ reqs[i].op \in DirectVariants /\ reqs[i].pc = "await"
    /\ outcome = "exhausted" => reqs[i].op = "v2"
    /\ mintsDone' = IF outcome \in {"minted", "mintedThenThrows"}
                    THEN [mintsDone EXCEPT ![reqs[i].wallet] = @ + 1]
                    ELSE mintsDone
    /\ IF outcome = "minted"
       THEN /\ reqs' = [reqs EXCEPT ![i].pc = "minted"]
            /\ UNCHANGED lastResp
       ELSE /\ lastResp' = Sent(reqs[i], IF outcome = "exhausted"
                                          THEN ErrResp(400, "All NFTs minted")
                                          ELSE ErrResp(500, "mint failed"))
            /\ reqs' = [reqs EXCEPT ![i] = IdleReq]
    /\ UNCHANGED <<whitelist, mintedReadable, checkedEligible, minted, transactionCache,
                   started, builds, coSigns, consumed, relayed, confirmedOK, interleaved,
                   rpc>>

\* loadMinted after the mint, the test minted.includes(wallet) and the push, up
\* to the call of saveMinted
DirectRecord(i) ==
    /\ reqs[i].op \in DirectVariants /\ reqs[i].pc = "minted"
    /\ LET snap == loadMinted
       IN IF Includes(snap, reqs[i].wallet)
          THEN /\ lastResp' = Sent(reqs[i], DirectResp)
               /\ reqs' = [reqs EXCEPT ![i] = IdleReq]
          ELSE /\ reqs' = [reqs EXCEPT ![i].pc = "write",
                                       ![i].snap = Append(snap, reqs[i].wallet)]
               /\ UNCHANGED lastResp
    /\ UNCHANGED <<whitelist, mintedReadable, checkedEligible, minted, transactionCache,
                   started, builds, coSigns, consumed, relayed, confirmedOK, interleaved,
                   rpc, mintsDone>>

\* saveMinted: fs.writeFile puts the array the handler holds into minted.json
DirectSave(i) ==
    /\ reqs[i].op \in DirectVariants /\ reqs[i].pc = "write"
    /\ minted' = reqs[i].snap
    /\ reqs' = [reqs EXCEPT ![i].pc = "saved"]
    /\ UNCHANGED <<whitelist, mintedReadable, checkedEligible, transactionCache, started,
                   builds, lastResp, coSigns, consumed, relayed, confirmedOK, interleaved,
                   rpc, mintsDone>>

\* the handler resumes after the await of saveMinted and answers
DirectAnswer(i) ==
    /\ reqs[i].op \in DirectVariants /\ reqs[i].pc = "saved"
    /\ lastResp' = Sent(reqs[i], DirectResp)
    /\ reqs' = [reqs EXCEPT ![i] = IdleReq]
    /\ UNCHANGED <<whitelist, mintedReadable, checkedEligible, minted, transactionCache,
                   started, builds, coSigns, consumed, relayed, confirmedOK, interleaved,
                   rpc, mintsDone>>

InitDirect ==
    /\ whitelist \in {{"A"}, {"A", "B"}}
    /\ minted = <<>>
    /\ mintedReadable = TRUE
    /\ transactionCache = EmptyMap
    /\ reqs = [i \in Slots |-> IdleReq]
    /\ started = 0
    /\ builds = 0
    /\ lastResp = NoneSent
    /\ coSigns = [w \in WellFormed |-> {}]
    /\ relayed = {}
    /\ confirmedOK = {}
    /\ checkedEligible = {}
    /\ consumed = {}
    /\ interleaved = FALSE
    /\ rpc = RpcIdle
    /\ mintsDone = NoMints

NextDirect ==
    \/ \E i \in Slots, w \in WalletInputs, v \in DirectVariants : DirectBegin(i, w, v)
    \/ \E i \in Slots, outcome \in MintOutcomes : DirectSettle(i, outcome)
    \/ \E i \in Slots : DirectRecord(i)
    \/ \E i \in Slots : DirectSave(i)
    \/ \E i \in Slots : DirectAnswer(i)

SpecDirect == InitDirect /\ [][NextDirect]_vars

(***************************************************************************)
(* Clients that do not follow the flow.  /mint/sign takes the bytes of     *)
(* req.body.transaction as they come; a client can submit a transaction it *)
(* compiled itself, with instructions of its choice, naming as signers the *)
(* keys it has seen in a transaction /mint returned.                       *)
(***************************************************************************)
\* a transaction compiled by the client: a message that is the message of no
\* build, the signer accounts of tx after a fee payer of the client's choice,
\* and the fee payer's signature
ClientCompiled(tx, payer) ==
    LET message == [build |-> 0 - tx.message.build - 1,
                    keys |-> <<payer>> \o Tail(tx.message.keys)]
    IN [sigs |-> [j \in 1..Len(tx.sigs) |->
                     IF j = 1 THEN [by |-> payer, over |-> message] ELSE NoSig],
        message |-> message]

ForgedInputs ==
    {ClientCompiled(transactionCache[k].tx, payer) :
        k \in {x \in DOMAIN transactionCache : transactionCache[x].tx # NoTx},
        payer \in WellFormed}

NextOpen ==
    \/ Next
    \/ \E i \in Slots, w \in WellFormed : \E txin \in ForgedInputs : SignBegin(i, w, txin)

SpecOpen == Init /\ [][NextOpen]_vars

(***************************************************************************)
(* Steps as a client sees them                                             *)
(***************************************************************************)
\* a request of kind op for wallet w is received in this step
Received(op, w) ==
    /\ started' = started + 1
    /\ \/ lastResp'.op = op /\ lastResp'.wallet = w /\ reqs' = reqs
       \/ \E i \in Slots : /\ reqs[i].pc = "idle"
                           /\ reqs'[i].op = op /\ reqs'[i].wallet = w
                           /\ lastResp' = lastResp

\* a handler of kind op for wallet w answers in this step
Answered(op, w) ==
    /\ lastResp'.op = op /\ lastResp'.wallet = w
    /\ \/ started' = started + 1 /\ reqs' = reqs
       \/ \E i \in Slots : /\ reqs[i].op = op /\ reqs[i].wallet = w
                           /\ reqs[i].pc # "idle" /\ reqs'[i] = IdleReq

\* /mint returns a transaction for w, /mint/sign returns a transaction for w
MintReturns(w) == Answered("mint", w) /\ lastResp'.resp.status = 200
SignReturns(w) == Answered("sign", w) /\ lastResp'.resp.status = 200

(***************************************************************************)
(* C1.  One mint per wallet: the backend co-signs at most one of the mint  *)
(* transactions it builds for a wallet, and once a co-signed transaction   *)
(* of the wallet has been relayed through /rpc, no later /mint or          *)
(* /mint/sign for that wallet returns a transaction.                       *)
(* The code refutes it: only /mint/confirm, which a client need not call,  *)
(* writes the minted-list, so /mint passes the eligibility check again.    *)
(* A /mint or /mint/sign is later than the relay when the /mint request    *)
(* was received after it.                                                  *)
(***************************************************************************)
C1_OneMintPerWallet ==
    [][\A w \in WellFormed :
          /\ Cardinality(coSigns'[w]) <= 1
          /\ ~(MintReturns(w) /\ \E i \in Slots : /\ Awaiting(i, "mint")
                                                  /\ reqs'[i] = IdleReq
                                                  /\ reqs[i].wallet = w
                                                  /\ reqs[i].facts.relayed)
          /\ ~(SignReturns(w) /\ \E i \in Slots : /\ Awaiting(i, "sign")
                                                  /\ reqs'[i] = IdleReq
                                                  /\ reqs[i].wallet = w
                                                  /\ reqs[i].cachedData[1].facts.relayed)]_vars

(***************************************************************************)
(* C2.  Allow-list enforcement: /mint/sign goes on to sign for wallet w    *)
(* only with the cache entry it finds under w, every such entry was stored *)
(* by a /mint call for w that found w on the allow-list and not in the     *)
(* minted-list, and a transaction that /mint/sign returns for w with a     *)
(* backend signature was signed by a handler holding such an entry.        *)
(***************************************************************************)
Passed(entry, w) ==
    /\ entry.facts.wallet = w
    /\ entry.facts.whitelisted
    /\ ~entry.facts.minted

\* the transaction carries a signature that is not the requester's
BackendSigned(tx, w) == \E j \in 1..Len(tx.sigs) : tx.sigs[j].by \notin {"", w}

Ineligible(reason) == [NoResp EXCEPT !.status = 200, !.reason = reason]

C3_NotOnWhitelist ==
    [][\A w \in WellFormed :
          (Answered("check", w) /\ w \notin whitelist)
              => lastResp'.resp = Ineligible("Wallet not on whitelist")]_vars

\* a check answered for a wallet that is in the minted-list and not on the allow-list
C3_Witness ==
    /\ lastResp.op = "check"
    /\ lastResp.wallet \in WellFormed \ whitelist
    /\ Includes(minted, lastResp.wallet)
    /\ lastResp.resp = Ineligible("Wallet not on whitelist")

(***************************************************************************)
(* C4.  For every identity that is in both the allow-list and the          *)
(* minted-list, the eligibility check answers eligible = false with the    *)
(* reason "Wallet has already minted"; the allow-list is tested first, so  *)
(* the minted reason is given only to identities on the allow-list.        *)
(***************************************************************************)
C4_AlreadyMinted ==
    [][\A w \in WellFormed :
          Answered("check", w)
              => /\ (w \in whitelist /\ Includes(minted, w))
                        => lastResp'.resp = Ineligible("Wallet has already minted")
                 /\ lastResp'.resp.reason = "Wallet has already minted"
                        => w \in whitelist]_vars

\* a check answered for a wallet that is in both lists
C4_Witness ==
    /\ lastResp.op = "check"
    /\ lastResp.wallet \in whitelist
    /\ Includes(minted, lastResp.wallet)
    /\ lastResp.resp = Ineligible("Wallet has already minted")

(***************************************************************************)
(* C5.  For every identity that is in the allow-list and absent from the   *)
(* minted-list, the eligibility check answers eligible = true and gives no *)
(* reason; and it answers eligible = true for no other identity.           *)
(***************************************************************************)
C5_Eligible ==
    [][\A w \in WalletInputs :
          Answered("check", w)
              => /\ lastResp'.resp.eligible
                        <=> (IsPublicKey(w) /\ w \in whitelist /\ ~Includes(minted, w))
                 /\ lastResp'.resp.eligible
                        => lastResp'.resp = [NoResp EXCEPT !.status = 200,
                                                           !.eligible = TRUE]]_vars

\* a check that answered eligible, while the minted-list holds another wallet
C5_Witness ==
    /\ lastResp.op = "check"
    /\ lastResp.resp.eligible
    /\ lastResp.resp.reason = ""
    /\ lastResp.wallet \in whitelist
    /\ ~Includes(minted, lastResp.wallet)
    /\ minted # <<>>

(***************************************************************************)
(* C6.  Once /mint/confirm has reported success for wallet w, every        *)
(* eligibility check for w received afterwards answers ineligible, with    *)
(* the reason "Wallet has already minted" when w is on the allow-list, and *)
(* every /mint for w received afterwards is rejected with 403, whatever    *)
(* other requests run before or at the same time.                          *)
(* The code refutes it: two /mint/confirm handlers for different wallets   *)
(* both read minted.json before either writes it, and the second write     *)
(* drops the wallet the first one recorded.                                *)
(***************************************************************************)
C6_ConfirmedStaysMinted ==
    [][\A w \in WellFormed \cap confirmedOK :
          /\ Answered("check", w)
                => /\ ~lastResp'.resp.eligible
                   /\ w \in whitelist
                         => lastResp'.resp = Ineligible("Wallet has already minted")
          /\ Received("mint", w)
                => /\ lastResp'.op = "mint" /\ lastResp'.wallet = w
                   /\ lastResp'.resp.status = 403
                   /\ reqs' = reqs]_vars

(***************************************************************************)
(* C7.  /mint evaluates eligibility itself: when the wallet is not on the  *)
(* allow-list, or is in the minted-list, at the moment /mint reads the     *)
(* lists, it answers 403 with the reason of the eligibility check, returns *)
(* no transaction, and leaves the cache and the handlers in flight as they *)
(* were, also when an earlier /mint/check answered eligible for the wallet.*)
(***************************************************************************)
ReasonFor(w) ==
    IF w \notin whitelist THEN "Wallet not on whitelist" ELSE "Wallet has already minted"

C7_MintRechecksEligibility ==
    [][\A w \in WellFormed :
          (Received("mint", w) /\ (w \notin whitelist \/ Includes(minted, w)))
              => /\ lastResp' = Sent(NewReq("mint", w), ErrResp(403, ReasonFor(w)))
                 /\ lastResp'.resp.tx = NoTx
                 /\ UNCHANGED <<transactionCache, reqs, minted, whitelist, builds>>]_vars

\* /mint answered 403 for a wallet that /mint/check had found eligible
C7_Witness ==
    /\ lastResp.op = "mint"
    /\ lastResp.resp.status = 403
    /\ lastResp.resp.error = "Wallet has already minted"
    /\ lastResp.wallet \in checkedEligible

(***************************************************************************)
(* C8.  Exhaustion: when the candy machine reports that no item remains,   *)
(* /mint answers 400 "All NFTs have been minted" without building a        *)
(* transaction or a signature slot and without storing a cache entry: the  *)
(* cache, the allow-list and the minted-list are as they were.  Every      *)
(* answer of that kind leaves them so.                                     *)
(***************************************************************************)
Exhausted == ErrResp(400, "All NFTs have been minted")

C8_Exhaustion ==
    [][/\ \A i \in Slots : \A out \in BuilderOutputs(reqs[i].wallet, builds + 1) :
             MintBuild(i, 0, out)
                 => /\ lastResp' = Sent(reqs[i], Exhausted)
                    /\ lastResp'.resp.tx = NoTx
                    /\ UNCHANGED <<transactionCache, whitelist, minted, builds>>
       /\ \A w \in WellFormed :
             (Answered("mint", w) /\ lastResp'.resp = Exhausted)
                 => UNCHANGED <<transactionCache, whitelist, minted, builds>>]_vars

\* /mint answered "All NFTs have been minted" while the cache held an entry of the wallet
C8_Witness ==
    /\ lastResp.op = "mint"
    /\ lastResp.resp = Exhausted
    /\ MapHas(transactionCache, lastResp.wallet)
    /\ transactionCache[lastResp.wallet].tx # NoTx

(***************************************************************************)
(* C9.  Validation errors have no side effects: a request to /mint/check,  *)
(* /mint, /mint/sign or /mint/confirm whose wallet is missing or is not a  *)
(* well-formed address is answered in the step that receives it, with an   *)
(* error status, and the allow-list, the minted-list and the cache are not *)
(* changed by it.                                                          *)
(* The code refutes it: /mint/confirm tests only that wallet and signature *)
(* are present, so it goes on with a wallet that is no address and, when   *)
(* the signature is that of a confirmed transaction, appends the string to *)
(* minted.json.                                                            *)
(***************************************************************************)
Malformed == WalletInputs \ WellFormed

C9_ValidationNoSideEffects ==
    [][/\ \A op \in {"check", "mint", "sign", "confirm"}, w \in Malformed :
             Received(op, w)
                 => /\ lastResp'.op = op /\ lastResp'.wallet = w
                    /\ lastResp'.resp.status >= 400
                    /\ UNCHANGED <<whitelist, minted, transactionCache, reqs>>
       /\ \A i \in Slots :
             (reqs[i].pc = "await" /\ reqs[i].wallet \in Malformed /\ reqs'[i] # reqs[i])
                 => UNCHANGED <<whitelist, minted, transactionCache>>]_vars

(***************************************************************************)
(* C10.  Every transaction that a successful /mint returns has a signature *)
(* table in which the requester and every signer the backend holds for     *)
(* that build have a slot, each slot is empty, there is one slot for each  *)
(* signer key of the message in the message's order, and no identity has   *)
(* two slots.                                                              *)
(***************************************************************************)
SlotsOf(tx, pk) == {j \in 1..Len(tx.sigs) : tx.message.keys[j] = pk}

TableOK(tx, requester, signers) ==
    /\ Len(tx.sigs) = Len(tx.message.keys)
    /\ \A j \in 1..Len(tx.sigs) : tx.sigs[j] = NoSig
    /\ \A pk \in {tx.message.keys[j] : j \in 1..Len(tx.message.keys)} :
          Cardinality(SlotsOf(tx, pk)) = 1
    /\ Cardinality(SlotsOf(tx, requester)) = 1
    /\ \A j \in 1..Len(signers) : Cardinality(SlotsOf(tx, signers[j].publicKey)) = 1

C10_SignatureTable ==
    /\ \A w \in DOMAIN transactionCache :
          transactionCache[w].tx # NoTx
              => TableOK(transactionCache[w].tx, w, transactionCache[w].signers)
    /\ (lastResp.op = "mint" /\ lastResp.resp.status = 200)
          => TableOK(lastResp.resp.tx, lastResp.wallet, <<>>)

\* /mint returned a transaction for which the backend holds two signers
C10_Witness ==
    /\ lastResp.op = "mint"
    /\ lastResp.resp.status = 200
    /\ MapHas(transactionCache, lastResp.wallet)
    /\ transactionCache[lastResp.wallet].tx = lastResp.resp.tx
    /\ Len(transactionCache[lastResp.wallet].signers) = 2
    /\ Len(lastResp.resp.tx.sigs) = 3

(***************************************************************************)
(* C11.  Round trip: when wallet w submits to /mint/sign a transaction     *)
(* that /mint returned for w, with its own signature added, and the cache  *)
(* holds an entry of w, the answer is that transaction with a signature of *)
(* every identity of its table whose secret key the backend holds and with *)
(* the requester's signature as submitted, whatever requests came before,  *)
(* further /mint calls for w among them.                                   *)
(* The code refutes it: the cache is keyed by the wallet alone, so a       *)
(* second /mint for w replaces the signers of the first build, and the     *)
(* first transaction is then signed with the keys of the second.           *)
(***************************************************************************)
\* the backend holds the secret key of pk: the authority and the mint keypairs
BackendHeld(pk) == pk \notin ({SYS} \cup WalletInputs)

\* tx is a transaction /mint returned for w, signed by w
SubmittedBy(tx, w) ==
    /\ tx.message.build > 0
    /\ tx.message.keys[1] = w
    /\ tx = UserSigned(tx, w)

RoundTrip(resp, txin, w) ==
    /\ resp.status = 200
    /\ resp.tx.message = txin.message
    /\ Len(resp.tx.sigs) = Len(txin.sigs)
    /\ \A j \in 1..Len(txin.sigs) :
          /\ txin.message.keys[j] = w => resp.tx.sigs[j] = txin.sigs[j]
          /\ BackendHeld(txin.message.keys[j])
                => resp.tx.sigs[j] = [by |-> txin.message.keys[j], over |-> txin.message]

C11_RoundTrip ==
    [][\A w \in WellFormed : \A i \in Slots :
          /\ \A txin \in TxInputs(w) :
                (SignBegin(i, w, txin) /\ SubmittedBy(txin, w) /\ MapHas(transactionCache, w))
                    => \/ reqs'[i].pc = "await"
                       \/ RoundTrip(lastResp'.resp, txin, w)
          /\ (SignFinish(i) /\ reqs[i].wallet = w /\ SubmittedBy(reqs[i].txin, w))
                => RoundTrip(lastResp'.resp, reqs[i].txin, w)]_vars

(***************************************************************************)
(* C12.  Expiry: a /mint/sign call for wallet w, carrying a transaction    *)
(* /mint returned for w, that arrives when the cache entry of w is older   *)
(* than CACHE_TTL is answered 400 "Transaction expired or not found" in    *)
(* the step that receives it, and changes neither the cache nor the lists  *)
(* and produces no signature.                                              *)
(* The code refutes it: /mint/sign tests only that the entry is present.   *)
(* The timestamp is read by the sweep alone, which runs once a minute, so  *)
(* an entry older than CACHE_TTL is served until the next sweep.           *)
(***************************************************************************)
NotFound == ErrResp(400, "Transaction expired or not found")

C12_Expiry ==
    [][\A w \in WellFormed : \A i \in Slots : \A txin \in TxInputs(w) :
          (/\ SignBegin(i, w, txin)
           /\ SubmittedBy(txin, w)
           /\ MapHas(transactionCache, w)
           /\ Expired(transactionCache[w]))
              => /\ lastResp' = Sent(NewReq("sign", w), NotFound)
                 /\ UNCHANGED <<transactionCache, whitelist, minted, reqs, coSigns>>]_vars

(***************************************************************************)
(* C13.  At most one reconciliation per build: for each transaction /mint  *)
(* returned, at most one /mint/sign call answers 200 using the cache entry *)
(* stored with it, also when several /mint/sign requests for the wallet    *)
(* are in flight at once.                                                  *)
(* The code refutes it: the entry is looked up before the await of         *)
(* import('crypto') and deleted after it, so two handlers that both pass   *)
(* the lookup before either deletes both sign and both answer 200.         *)
(***************************************************************************)
BuildOf(entry) == entry.tx.message.build

C13_OneReconciliationPerBuild ==
    [][\A w \in WellFormed :
          SignReturns(w)
              => /\ \A i \in Slots :
                       (Awaiting(i, "sign") /\ reqs[i].wallet = w /\ reqs'[i] = IdleReq
                            /\ BuildOf(reqs[i].cachedData[1]) > 0)
                           => BuildOf(reqs[i].cachedData[1]) \notin consumed
                 /\ (reqs' = reqs /\ BuildOf(transactionCache[w]) > 0)
                       => BuildOf(transactionCache[w]) \notin consumed]_vars

(***************************************************************************)
(* C14.  A /mint/sign call for a wallet that has no cache entry, because   *)
(* none was built, or it was consumed, or it was swept, is rejected: with  *)
(* 400 "Transaction expired or not found" when the request carries a       *)
(* wallet and a transaction; it returns no transaction, and the cache, the *)
(* lists and the handlers in flight are as they were.                      *)
(***************************************************************************)
C14_MissingEntry ==
    [][\A w \in WalletInputs : \A i \in Slots : \A txin \in TxInputs(w) :
          (SignBegin(i, w, txin) /\ ~MapHas(transactionCache, w))
              => /\ lastResp'.op = "sign" /\ lastResp'.wallet = w
                 /\ lastResp'.resp.status = 400
                 /\ lastResp'.resp.tx = NoTx
                 /\ (~IsMissing(w) /\ txin # NoTx) => lastResp'.resp = NotFound
                 /\ UNCHANGED <<transactionCache, whitelist, minted, reqs, coSigns,
                                consumed>>]_vars

\* /mint/sign answered "expired or not found" for a wallet whose entry was consumed
C14_Witness ==
    /\ lastResp.op = "sign"
    /\ lastResp.resp = NotFound
    /\ lastResp.wallet \in WellFormed
    /\ coSigns[lastResp.wallet] # {}
    /\ ~MapHas(transactionCache, lastResp.wallet)

(***************************************************************************)
(* C15.  Reconciliation is all-or-nothing for the cache: a /mint/sign call *)
(* that answers with an error, whether the transaction could not be        *)
(* parsed, signed or serialized, leaves the cache as it was, so the entry  *)
(* of the wallet keeps its signers for a retried call; a /mint/sign call   *)
(* changes the cache only when it answers 200 with the transaction, and    *)
(* then it removes the entry of its wallet and nothing else.               *)
(***************************************************************************)
C15_AllOrNothing ==
    [][\A w \in WalletInputs :
          Answered("sign", w)
              => IF lastResp'.resp.status = 200
                 THEN /\ lastResp'.resp.tx # NoTx
                      /\ transactionCache' = MapDelete(transactionCache, w)
                 ELSE UNCHANGED <<transactionCache, whitelist, minted, coSigns,
                                  consumed>>]_vars

\* /mint/sign failed to serialize and the entry of the wallet is still in the cache
C15_Witness ==
    /\ lastResp.op = "sign"
    /\ lastResp.resp = ErrResp(500, "Failed to serialize transaction")
    /\ MapHas(transactionCache, lastResp.wallet)
    /\ Len(transactionCache[lastResp.wallet].signers) > 0

(***************************************************************************)
(* C16.  /mint/confirm reports success if and only if the status the       *)
(* ledger gives for the signature is "confirmed" or "finalized": with such *)
(* a status the handler goes on to record the wallet and answers success,  *)
(* with any other status it answers 400 "Transaction not confirmed" and    *)
(* the status observed; and whenever it answers success, the wallet is in  *)
(* the minted-list at that moment.                                         *)
(* The code refutes the last part: a handler writes the array it read      *)
(* before its own push, so a write of a concurrent /mint/confirm that      *)
(* lands between this handler's write and its answer removes the wallet    *)
(* again, and the handler still answers success.                           *)
(***************************************************************************)
C16_ConfirmIffConfirmed ==
    [][/\ \A i \in Slots, w \in WalletInputs \ {""}, st \in StatusOutcomes \ {"throws"} :
             ConfirmBegin(i, w, "sig", st)
                 => IF IsConfirmed(st)
                    THEN \/ reqs'[i].op = "confirm" /\ reqs'[i].pc = "await"
                         \/ lastResp' = Sent(NewReq("confirm", w), ConfirmedResp)
                    ELSE lastResp' = Sent(NewReq("confirm", w),
                                          [ErrResp(400, "Transaction not confirmed")
                                              EXCEPT !.observed = st])
       /\ \A w \in WalletInputs :
             (Answered("confirm", w) /\ lastResp'.resp.success)
                 => Includes(minted', w)]_vars

(***************************************************************************)
(* C17.  Confirmation is idempotent: /mint/confirm calls for one wallet    *)
(* with a confirmed or finalized status, one after the other or            *)
(* overlapping, put the wallet into the minted-list once.  No wallet       *)
(* occurs twice in the list; a call that finds the wallet in the list      *)
(* answers success and writes nothing; and the write of a call that        *)
(* overlapped another call for the same wallet, made when the list holds   *)
(* the wallet and is otherwise what the call read, leaves the list as it   *)
(* is.                                                                     *)
(***************************************************************************)
NoDuplicates(arr) == \A j, k \in 1..Len(arr) : arr[j] = arr[k] => j = k

Without(arr, x) == SelectSeq(arr, LAMBDA y : y # x)

C17_ConfirmIdempotent ==
    [][/\ NoDuplicates(minted')
       /\ \A i \in Slots, w \in WalletInputs \ {""}, st \in {"confirmed", "finalized"} :
             (ConfirmBegin(i, w, "sig", st) /\ Includes(minted, w))
                 => /\ lastResp' = Sent(NewReq("confirm", w), ConfirmedResp)
                    /\ UNCHANGED <<minted, reqs>>
       /\ \A i \in Slots :
             (/\ ConfirmSave(i)
              /\ Includes(minted, reqs[i].wallet)
              /\ Without(minted, reqs[i].wallet) = Without(reqs[i].snap, reqs[i].wallet))
                 => minted' = minted]_vars

\* a second call for the wallet, overlapping the first, has written after the
\* first one answered, and the list holds the wallet once
C17_Witness ==
    \E i \in Slots :
        /\ reqs[i].op = "confirm" /\ reqs[i].pc = "saved"
        /\ reqs[i].wallet \in confirmedOK
        /\ minted = <<reqs[i].wallet>>

\* C18: a /mint/confirm that ends on an error path (a missing field, a failed
\* ledger query, a status other than confirmed or finalized) answers with an
\* error status, and the step leaves the minted-list file as it was: nothing
\* is written to it, and it is not even read
C18_ConfirmErrorNoWrite ==
    [][/\ \A i \in Slots, w \in WalletInputs, sg \in {"", "sig"}, st \in StatusOutcomes :
             (ConfirmBegin(i, w, sg, st)
              /\ (IsMissing(w) \/ sg = "" \/ st = "throws" \/ ~IsConfirmed(st)))
                 => /\ lastResp'.resp.status >= 400
                    /\ Answered("confirm", w)
                    /\ UNCHANGED <<minted, mintedReadable>>
       /\ \A w \in WalletInputs :
             (Answered("confirm", w) /\ lastResp'.resp.status >= 400)
                 => UNCHANGED <<minted, mintedReadable>>]_vars

\* a confirmation was refused because the ledger reported a status short of
\* confirmed, while the minted-list already held wallets
C18_Witness ==
    /\ lastResp.op = "confirm"
    /\ lastResp.resp.error = "Transaction not confirmed"
    /\ lastResp.resp.observed = "processed"
    /\ ~Includes(minted, lastResp.wallet)
    /\ minted # <<>>

\* the backend has co-signed a mint transaction for w
CoSignedFor(w) == w \in DOMAIN coSigns /\ coSigns[w] # {}

\* C19: every wallet in the minted-list is one for which a mint transaction was
\* built and co-signed by the backend: /mint/confirm records w only when such a
\* transaction exists, and no sequence of requests records a wallet for which
\* no mint transaction was ever built
C19_MintedHaveMinted ==
    \A k \in 1..Len(minted) : CoSignedFor(minted[k])

\* a step of the /mint/confirm handler
ConfirmStep ==
    \/ \E i \in Slots, w \in WalletInputs, sg \in {"", "sig"}, st \in StatusOutcomes :
            ConfirmBegin(i, w, sg, st)
    \/ \E i \in Slots : ConfirmSave(i)
    \/ \E i \in Slots : ConfirmAnswer(i)

\* C20: only /mint/confirm writes the minted-list file: every step of
\* /mint/check, /mint, /mint/sign, /rpc and the cache sweep leaves the file as
\* it was, its content and whether it exists and parses, also when the file is
\* missing or unreadable
C20_OnlyConfirmWrites ==
    [][ConfirmStep \/ UNCHANGED <<minted, mintedReadable>>]_vars

\* C21: the minted-list is append-only: in every step of every interleaving of
\* requests, a wallet that is in the minted-list before the step is in it after
C21_AppendOnly ==
    [][\A w \in WalletInputs : Includes(minted, w) => Includes(minted', w)]_vars

\* every /mint/confirm handler is back at rest
AllIdle == \A i \in Slots : reqs[i] = IdleReq

\* C22: lost update.  Two /mint/confirm calls for different wallets, each with
\* a confirmed status, can interleave their read and their write of the
\* minted-list so that both report success and the list ends with one of the
\* two wallets (the witness); as long as no call has read the list while
\* another was between its read and its write, every wallet for which
\* /mint/confirm has reported success is in the list
C22_LostUpdate ==
    ~interleaved => \A w \in confirmedOK : Includes(minted, w)

\* both calls have reported success, their reads and writes interleaved, and
\* the list holds one of the two wallets
C22_Witness ==
    /\ interleaved
    /\ AllIdle
    /\ confirmedOK = {"A", "B"}
    /\ Len(minted) = 1

\* two calls that did not overlap have both reported success and both wallets
\* are in the list
C22_WitnessSequential ==
    /\ ~interleaved
    /\ AllIdle
    /\ confirmedOK = {"A", "B"}
    /\ Includes(minted, "A") /\ Includes(minted, "B")

\* the ledger answered the call: fetch resolved
LedgerAnswered(reply) == reply.kind \in {"json", "text"}

\* C23: the /rpc relay sends the body of each request unchanged to the ledger
\* endpoint, in one call and no more, and when the ledger answers it returns
\* the ledger's response body as it is; no step of it changes the cache, the
\* allow-list or the minted-list
C23_RelayVerbatim ==
    [][/\ \A body \in RpcBodies : RpcBegin(body) => rpc'.sent = <<body>>
       /\ \A reply \in RepliesInFlight :
             RpcAnswer(reply)
                 => /\ rpc'.sent = rpc.sent
                    /\ LedgerAnswered(reply) => rpc'.resp = RpcPassed(reply)
       /\ UNCHANGED <<transactionCache, whitelist, minted, mintedReadable>>]_vars

\* C24: when the call of the ledger fails in transport, /rpc answers with a
\* JSON-RPC error envelope whose code is -32603 and whose id is the id of the
\* request, whatever id the request carries (0 and the empty string too); the
\* id is null only when the request carries none
C24_ErrorEnvelope ==
    [][RpcAnswer(Rejects)
          => /\ rpc'.resp.envelope
             /\ rpc'.resp.code = -32603
             /\ rpc'.resp.body.id = IF rpc.raw.id = NoId THEN NullId ELSE rpc.raw.id]_vars

\* C25: no operation blocks for ever: every request a handler has taken up is
\* eventually answered, also when the ledger endpoint never answers a call
C25_EveryRequestAnswered ==
    \A i \in Slots : (reqs[i].pc # "idle") ~> (reqs[i].pc = "idle")

\* C26: every entry of the pending-transaction cache is eventually removed: an
\* entry that /mint stored for a wallet is deleted by a successful /mint/sign
\* or, when the client does not come back, evicted by the sweep once it is
\* older than the time-to-live, given that the clock and the sweep timer run
C26_EntriesEventuallyRemoved ==
    \A w \in WellFormed :
        MapHas(transactionCache, w) ~> ~MapHas(transactionCache, w)

\* an entry has outlived the time-to-live in the cache and is evicted by the sweep
C26_Witness ==
    /\ ~MapHas(transactionCache, "A")
    /\ lastResp.op = "mint" /\ lastResp.wallet = "A" /\ lastResp.resp.status = 200
    /\ consumed = {}

\* the transaction resp carries a signature that tx did not carry
Attached(resp, tx) ==
    \E j \in 1..Len(resp.tx.sigs) :
        resp.tx.sigs[j] # NoSig /\ (j > Len(tx.sigs) \/ resp.tx.sigs[j] # tx.sigs[j])

LoopPlaces(before, signers, message, after) ==
    LET Held(pk) == \E k \in 1..Len(signers) : signers[k].publicKey = pk
        slotless == SelectSeq(signers, LAMBDA sg : IndexOf(before, sg.publicKey) = 0)
    IN /\ Len(after) = Len(before) + Len(slotless)
       /\ \A j \in 1..Len(before) :
             /\ after[j].publicKey = before[j].publicKey
             /\ after[j].signature =
                   IF Held(before[j].publicKey) /\ IndexOf(before, before[j].publicKey) = j
                   THEN [by |-> before[j].publicKey, over |-> message]
                   ELSE before[j].signature
       /\ \A k \in 1..Len(slotless) :
             after[Len(before) + k] =
                 Slot(slotless[k].publicKey, [by |-> slotless[k].publicKey, over |-> message])

\* C28: in /mint/sign each backend signature goes into the slot whose identity
\* is the signer's, wherever that slot stands; every other slot keeps its
\* identity and its signature, the requester's too; when every backend signer
\* has a slot the table keeps its length and its order, and a slot is appended
\* at the end only for a backend signer that has none
C28_SlotPlacement ==
    \A i \in Slots :
        Awaiting(i, "sign")
            => LET before == signaturesOf(reqs[i].txin)
                   signers == reqs[i].cachedData[1].signers
                   message == reqs[i].txin.message
               IN LoopPlaces(before, signers, message,
                             addBackendSignatures(before, signers, message))

\* /mint/sign has returned a transaction whose backend signature stands in
\* the third slot, after the requester's signature and an empty slot
C28_Witness ==
    /\ lastResp.op = "sign" /\ lastResp.resp.status = 200
    /\ Len(lastResp.resp.tx.sigs) = 3
    /\ lastResp.resp.tx.sigs[1].by = lastResp.wallet
    /\ lastResp.resp.tx.sigs[2] = NoSig
    /\ lastResp.resp.tx.sigs[3].by = lastResp.resp.tx.message.keys[3]
    /\ BackendHeld(lastResp.resp.tx.message.keys[3])

\* the signers of every cache entry, in the cache or held by a handler
CachedSignerSets ==
    {transactionCache[w].signers : w \in DOMAIN transactionCache}
        \cup {reqs[i].cachedData[1].signers : i \in {h \in Slots : reqs[h].cachedData # <<>>}}

CachedEntries ==
    {<<w, transactionCache[w]>> : w \in DOMAIN transactionCache}
        \cup {<<reqs[i].wallet, reqs[i].cachedData[1]>> :
                 i \in {h \in Slots : reqs[h].cachedData # <<>>}}

C31_UnsignedAtBuild ==
    /\ (lastResp.op = "mint" /\ lastResp.resp.status = 200)
          => /\ lastResp.resp.tx # NoTx
             /\ \A j \in 1..Len(lastResp.resp.tx.sigs) : lastResp.resp.tx.sigs[j] = NoSig
    /\ (\E j \in 1..Len(lastResp.resp.tx.sigs) : lastResp.resp.tx.sigs[j] # NoSig)
          => lastResp.op = "sign"
    /\ \A w \in DOMAIN transactionCache :
          \A j \in 1..Len(transactionCache[w].tx.sigs) : transactionCache[w].tx.sigs[j] = NoSig

\* /mint has returned, for a wallet the backend co-signed for before, a
\* transaction with a slot of a key the backend holds, and the slot is empty
C31_Witness ==
    /\ lastResp.op = "mint" /\ lastResp.resp.status = 200
    /\ CoSignedFor(lastResp.wallet)
    /\ \E j \in 1..Len(lastResp.resp.tx.sigs) :
          /\ BackendHeld(lastResp.resp.tx.message.keys[j])
          /\ lastResp.resp.tx.sigs[j] = NoSig

\* C32: the periodic sweep evicts exactly the cache entries whose age is
\* strictly greater than the time-to-live: an entry whose age is at most the
\* time-to-live stays, every entry that stays keeps its signers and its
\* timestamp, and the sweep changes neither list nor any handler in flight
C32_SweepExact ==
    [][Sweep
          => /\ DOMAIN transactionCache' \subseteq DOMAIN transactionCache
             /\ \A k \in DOMAIN transactionCache :
                   (k \in DOMAIN transactionCache') <=> (transactionCache[k].age <= CACHE_TTL)
             /\ \A k \in DOMAIN transactionCache' : transactionCache'[k] = transactionCache[k]
             /\ UNCHANGED <<whitelist, minted, mintedReadable, reqs, lastResp>>]_vars

\* the entry of A has been evicted, from under a /mint/sign handler that holds
\* it, and the entry of B, stored later and by now exactly as old as the
\* time-to-live, is in the cache
C32_Witness ==
    /\ \E i \in Slots : /\ Awaiting(i, "sign")
                        /\ reqs[i].wallet = "A"
                        /\ BuildOf(reqs[i].cachedData[1]) = 1
    /\ ~MapHas(transactionCache, "A")
    /\ consumed = {}
    /\ MapHas(transactionCache, "B")
    /\ BuildOf(transactionCache["B"]) = 2
    /\ transactionCache["B"].age = CACHE_TTL

\* C33: the minted-list never holds the same identity twice: whatever
\* /mint/confirm calls run, for one wallet or several, one after the other or
\* interleaved, the file holds no repeated entry, and neither does the array
\* a handler is about to write
C33_NoRepeatedEntry ==
    /\ NoDuplicates(minted)
    /\ \A i \in Slots : reqs[i].op = "confirm" => NoDuplicates(reqs[i].snap)

\* three calls, two of them overlapping, have all been answered and the list
\* holds two wallets
C33_Witness ==
    /\ interleaved
    /\ AllIdle
    /\ started = 3
    /\ Len(minted) = 2
    /\ confirmedOK = {minted[1], minted[2]}

\* two cache entries are the same object: stored by the same build
SameEntry(e1, e2) == e1.signers = e2.signers /\ e1.tx = e2.tx

\* C34: a successful /mint/sign deletes only the cache entry whose signer set
\* it used: when a /mint for the same wallet has stored a fresh entry while
\* the /mint/sign was in flight, the completion of the /mint/sign leaves the
\* fresh entry in the cache
C34_DeletesOnlyOwnEntry ==
    [][\A i \in Slots :
          (/\ SignFinish(i)
           /\ MapHas(transactionCache, reqs[i].wallet)
           /\ ~SameEntry(transactionCache[reqs[i].wallet], reqs[i].cachedData[1]))
              => /\ MapHas(transactionCache', reqs[i].wallet)
                 /\ transactionCache'[reqs[i].wallet] = transactionCache[reqs[i].wallet]]_vars

\* C35: in the direct-mint variants (/mint/v2 and /mint/sugar) at most one
\* mint is executed for a wallet, also when two requests for the same eligible
\* wallet are handled at the same time, and a wallet is in the minted-list
\* only after a mint was executed for it
C35_OneDirectMintPerWallet ==
    \A w \in WalletInputs :
        /\ mintsDone[w] <= 1
        /\ Includes(minted, w) => mintsDone[w] >= 1

\* C36: a cache entry for wallet w exists only if a /mint call for w returned
\* a transaction to the client: every entry in the cache goes with a
\* transaction /mint returned, and a /mint call that ends with an error, a
\* failure while reserving slots or serializing included, leaves the cache as
\* it was before the call
C36_EntryOnlyWithTransaction ==
    [][/\ \A w \in DOMAIN transactionCache' : transactionCache'[w].tx # NoTx
       /\ \A w \in WalletInputs :
             (Answered("mint", w) /\ lastResp'.resp.status >= 400)
                 => UNCHANGED transactionCache]_vars

\* C37: the backend co-signs only what it built: every backend signature in a
\* transaction /mint/sign returns for wallet w is over the message of a
\* transaction that /mint returned for w, whose fee payer is w; a submitted
\* transaction with any other message gets no backend signature
C37_SignsOnlyWhatItBuilt ==
    [][\A w \in WellFormed :
          SignReturns(w)
              => \A j \in 1..Len(lastResp'.resp.tx.sigs) :
                    BackendHeld(lastResp'.resp.tx.sigs[j].by)
                        => /\ lastResp'.resp.tx.sigs[j].over.build > 0
                           /\ lastResp'.resp.tx.sigs[j].over.keys[1] = w
                           /\ lastResp'.resp.tx.message.keys[1] = w]_vars

====
